---- MODULE Spec2Model ----
(***************************************************************************)
(* Model of the cubinix backend: the /data/ask rule cascade and its field  *)
(* resolver (src/routers/data.py), the /data/top-sales-reps handler and    *)
(* the revenue ranking reducer (src/services/sales_analytics.py).          *)
(*                                                                         *)
(* Text is modelled by TLA+ strings; Python's str operations (lower, in,   *)
(* strip, split, replace) are operators over them.  A record (a Python     *)
(* dict) is a sequence of [k, v] pairs in key insertion order.             *)
(***************************************************************************)
EXTENDS Integers, Sequences, FiniteSets, TLC

VARIABLES
    store,  \* the user's document in the "datasets" collection
    now,    \* index into Months: the wall-clock month of the server
    resp,   \* the response to the last HTTP request
    first,  \* an earlier /data/ask exchange, kept to compare with a later one
    call,   \* function-level specifications: the arguments of the call
    ret     \* function-level specifications: the value returned

vars == <<store, now, resp, first, call, ret>>

(***************************************************************************)
(* Bounds of the model.                                                    *)
(***************************************************************************)
MaxCols == 3
MaxRecords == 3
MaxTopN == 2
MaxFragments == 2
MaxRows == 3
MaxMonths == 2

(***************************************************************************)
(* Python values.                                                          *)
(***************************************************************************)
None == [some |-> FALSE]
Some(v) == [some |-> TRUE, val |-> v]

NoRet == [done |-> FALSE]
Returned(v) == [done |-> TRUE, val |-> v]

Min(S) == CHOOSE x \in S : \A y \in S : x <= y

Range(s) == {s[i] : i \in 1..Len(s)}

\* Sequences over S of length at most n without repeated elements.
RECURSIVE DistinctSeqs(_, _)
DistinctSeqs(S, n) ==
    IF n = 0 THEN {<<>>}
    ELSE LET shorter == DistinctSeqs(S, n - 1)
         IN  shorter \cup
             UNION {{Append(s, x) : x \in S \ Range(s)} :
                    s \in {t \in shorter : Len(t) = n - 1}}

\* Sequences over S of length at most n.
RECURSIVE SeqsUpTo(_, _)
SeqsUpTo(S, n) ==
    IF n = 0 THEN {<<>>}
    ELSE LET shorter == SeqsUpTo(S, n - 1)
         IN  shorter \cup
             {Append(s, x) : s \in {t \in shorter : Len(t) = n - 1}, x \in S}

(***************************************************************************)
(* str operations.                                                         *)
(***************************************************************************)
UpperAlpha == "ABCDEFGHIJKLMNOPQRSTUVWXYZ"
LowerAlpha == "abcdefghijklmnopqrstuvwxyz"

Ch(s, i) == SubSeq(s, i, i)

\* str.lower() of one character
LowerOf ==
    [c \in {Ch(UpperAlpha, i) : i \in 1..Len(UpperAlpha)} |->
        Ch(LowerAlpha, CHOOSE i \in 1..Len(UpperAlpha) : Ch(UpperAlpha, i) = c)]
LowerCh(c) == IF c \in DOMAIN LowerOf THEN LowerOf[c] ELSE c

\* str.lower()
RECURSIVE Lower(_)
Lower(s) == IF s = "" THEN "" ELSE LowerCh(Ch(s, 1)) \o Lower(Tail(s))

\* needle in hay
Contains(hay, needle) ==
    \E i \in 1..(Len(hay) - Len(needle) + 1) :
        SubSeq(hay, i, i + Len(needle) - 1) = needle

Digits == "0123456789"

IsSpace(c) == c \in {" ", "\t", "\n"}

\* str.lstrip() / str.rstrip() / str.strip()
RECURSIVE LStrip(_)
LStrip(s) == IF s # "" /\ IsSpace(Ch(s, 1)) THEN LStrip(Tail(s)) ELSE s
RECURSIVE RStrip(_)
RStrip(s) ==
    IF s # "" /\ IsSpace(Ch(s, Len(s)))
    THEN RStrip(SubSeq(s, 1, Len(s) - 1))
    ELSE s
Strip(s) == RStrip(LStrip(s))

\* str.replace(c, "") for a single character c
RECURSIVE Remove(_, _)
Remove(s, c) ==
    IF s = "" THEN ""
    ELSE (IF Ch(s, 1) = c THEN "" ELSE Ch(s, 1)) \o Remove(Tail(s), c)

IsDigit(c) == \E i \in 1..Len(Digits) : Ch(Digits, i) = c
DigitVal(c) == (CHOOSE i \in 1..Len(Digits) : Ch(Digits, i) = c) - 1
AllDigits(s) == \A i \in 1..Len(s) : IsDigit(Ch(s, i))

\* The number a string of digits writes ("" is 0).
RECURSIVE NumVal(_)
NumVal(s) ==
    IF s = "" THEN 0
    ELSE 10 * NumVal(SubSeq(s, 1, Len(s) - 1)) + DigitVal(Ch(s, Len(s)))

(***************************************************************************)
(* Numbers.  A float is modelled by an integer count of thousandths, so    *)
(* that amounts of up to three decimals are exact and round(x, 2) rounds.  *)
(* float(s) is modelled on plain decimal literals: optional sign, digits,  *)
(* optional fraction; exponents, "inf" and "nan" are outside the model.    *)
(***************************************************************************)
ParseFloat(s) ==
    LET t    == Strip(s)
        neg  == t # "" /\ Ch(t, 1) = "-"
        body == IF t # "" /\ Ch(t, 1) \in {"-", "+"} THEN Tail(t) ELSE t
        dots == {i \in 1..Len(body) : Ch(body, i) = "."}
        ip   == IF dots = {} THEN body ELSE SubSeq(body, 1, Min(dots) - 1)
        fp   == IF dots = {} THEN "" ELSE SubSeq(body, Min(dots) + 1, Len(body))
        fp3  == SubSeq(fp \o "000", 1, 3)
        mag  == NumVal(ip) * 1000 + NumVal(fp3)
    IN  IF AllDigits(ip) /\ AllDigits(fp) /\ Len(ip) + Len(fp) >= 1
        THEN Some(IF neg THEN 0 - mag ELSE mag)
        ELSE None

\* round(x, 2): to the nearest hundredth, an exact half to the even one.
Round2(m) ==
    LET a == IF m < 0 THEN 0 - m ELSE m
        q == a \div 10
        r == a % 10
        up == r > 5 \/ (r = 5 /\ q % 2 = 1)
        v == 10 * (IF up THEN q + 1 ELSE q)
    IN  IF m < 0 THEN 0 - v ELSE v

(***************************************************************************)
(* Canonical field registry of the router.                                 *)
(***************************************************************************)
CANONICAL_FIELDS ==
    [none          |-> <<>>,
     sales_rep     |-> <<"rep", "sales_rep", "agent", "salesperson", "owner">>,
     customer_name |-> <<"customer", "client", "account", "company", "name">>,
     deal_value    |-> <<"amount", "value", "revenue", "price", "total">>,
     deal_stage    |-> <<"stage", "status", "pipeline", "won", "lost", "closed">>,
     close_date    |-> <<"close", "date", "signed", "order_date">>,
     city          |-> <<"city", "town", "location">>,
     region        |-> <<"state", "province", "region">>,
     country       |-> <<"country">>]

\* CANONICAL_FIELDS.get(field_key, {}).get("keywords", [])
Keywords(field_key) ==
    IF field_key \in DOMAIN CANONICAL_FIELDS
    THEN CANONICAL_FIELDS[field_key]
    ELSE <<>>

\* c.lower() in [k.lower() for k in keywords]
ExactHit(c, keywords) ==
    \E j \in 1..Len(keywords) : Lower(c) = Lower(keywords[j])

\* the inner loop of the partial match: some k with k.lower() in c.lower()
PartialHit(c, keywords) ==
    \E j \in 1..Len(keywords) : Contains(Lower(c), Lower(keywords[j]))

\* for c in columns: if ExactHit: return c   (from column i on)
RECURSIVE ExactScan(_, _, _)
ExactScan(columns, keywords, i) ==
    IF i > Len(columns) THEN None
    ELSE IF ExactHit(columns[i], keywords) THEN Some(columns[i])
    ELSE ExactScan(columns, keywords, i + 1)

\* for c in columns: for k in keywords: if k in c: return c   (from column i on)
RECURSIVE PartialScan(_, _, _)
PartialScan(columns, keywords, i) ==
    IF i > Len(columns) THEN None
    ELSE IF PartialHit(columns[i], keywords) THEN Some(columns[i])
    ELSE PartialScan(columns, keywords, i + 1)

\* A resolver that takes the first column matching either way, in one pass.
RECURSIVE OnePassScan(_, _, _)
OnePassScan(columns, keywords, i) ==
    IF i > Len(columns) THEN None
    ELSE IF ExactHit(columns[i], keywords) \/ PartialHit(columns[i], keywords)
         THEN Some(columns[i])
    ELSE OnePassScan(columns, keywords, i + 1)

find_column_onepass(columns, field_key) ==
    OnePassScan(columns, Keywords(field_key), 1)

find_column(columns, field_key) ==
    LET keywords == Keywords(field_key)
        exact == ExactScan(columns, keywords, 1)
    IN  IF exact.some THEN exact ELSE PartialScan(columns, keywords, 1)

(***************************************************************************)
(* services/sales_analytics.py                                             *)
(***************************************************************************)
\* A value that Python takes as true: not None and not "".
Truthy(v) == v.some /\ v.val # ""

\* record.get(key)
Get(record, key) ==
    IF \E i \in 1..Len(record) : record[i].k = key
    THEN record[CHOOSE i \in 1..Len(record) : record[i].k = key].v
    ELSE None

_parse_money_zero(x) ==
    IF ~x.some THEN Some(0)
    ELSE LET s == Strip(x.val)
         IN  IF s = "" THEN Some(0)
             ELSE LET p == ParseFloat(Remove(Remove(s, "$"), ","))
                  IN  IF p.some THEN p ELSE Some(0)

_parse_money(x) ==
    IF ~x.some THEN None
    ELSE LET s == Strip(x.val)
         IN  IF s = "" THEN None
             ELSE ParseFloat(Remove(Remove(s, "$"), ","))

\* lower_keys = {k.lower(): k for k in record.keys()}: a later key replaces an
\* earlier one with the same lowercase form.
LowerKeys(record) ==
    [lk \in {Lower(record[i].k) : i \in 1..Len(record)} |->
        LET is == {i \in 1..Len(record) : Lower(record[i].k) = lk}
        IN  record[CHOOSE i \in is : \A j \in is : j <= i].k]

\* for kw in keywords: if kw.lower() in lower_keys: return ...   (from j on)
RECURSIVE ExactKeyword(_, _, _)
ExactKeyword(record, keywords, j) ==
    IF j > Len(keywords) THEN [hit |-> FALSE]
    ELSE IF Lower(keywords[j]) \in DOMAIN LowerKeys(record)
         THEN [hit |-> TRUE,
               val |-> Get(record, LowerKeys(record)[Lower(keywords[j])])]
    ELSE ExactKeyword(record, keywords, j + 1)

\* for k in record.keys(): for kw in keywords: if kw in k.lower(): return ...
RECURSIVE PartialKey(_, _, _)
PartialKey(record, keywords, i) ==
    IF i > Len(record) THEN None
    ELSE IF PartialHit(record[i].k, keywords) THEN record[i].v
    ELSE PartialKey(record, keywords, i + 1)

_find_value_by_keywords(record, keywords) ==
    LET exact == ExactKeyword(record, keywords, 1)
    IN  IF exact.hit THEN exact.val ELSE PartialKey(record, keywords, 1)

RepKeywords == <<"rep", "sales_rep", "agent", "salesperson", "owner">>
ValueKeywords == <<"amount", "value", "revenue", "price", "total">>

\* Steps 1) and 2) of the loop body: the representative of one record.
RecordRep(record) ==
    LET rep == Get(record, "sales_rep")
    IN  IF ~Truthy(rep) THEN _find_value_by_keywords(record, RepKeywords)
        ELSE rep

\* Steps 1) and 2) of the loop body: the raw amount of one record.
RecordAmount(record) ==
    LET amount == Get(record, "deal_value")
    IN  IF ~amount.some \/ amount = Some("")
        THEN _find_value_by_keywords(record, ValueKeywords)
        ELSE amount

\* revenue_by_rep[key] += parsed, revenue_by_rep a defaultdict(float) kept as
\* the sequence of its items in insertion order.
AddRevenue(revenue, key, parsed) ==
    IF \E i \in 1..Len(revenue) : revenue[i].rep = key
    THEN [i \in 1..Len(revenue) |->
            IF revenue[i].rep = key
            THEN [rep |-> key, total |-> revenue[i].total + parsed]
            ELSE revenue[i]]
    ELSE Append(revenue, [rep |-> key, total |-> parsed])

\* The for loop over the records, from record i on.
RECURSIVE Accumulate(_, _, _)
Accumulate(records, i, revenue) ==
    IF i > Len(records) THEN revenue
    ELSE LET rep    == RecordRep(records[i])
             parsed == _parse_money(RecordAmount(records[i]))
         IN  IF ~Truthy(rep) THEN Accumulate(records, i + 1, revenue)
             ELSE IF ~parsed.some THEN Accumulate(records, i + 1, revenue)
             ELSE Accumulate(records, i + 1,
                             AddRevenue(revenue, Strip(rep.val), parsed.val))

\* An insertion that puts an item before the items it ties with.
InsertDescUnstable(sorted, x) ==
    LET k == Cardinality({i \in 1..Len(sorted) : sorted[i].total > x.total})
    IN  SubSeq(sorted, 1, k) \o <<x>> \o SubSeq(sorted, k + 1, Len(sorted))

\* One item placed into a descending sequence, after the items it ties with.
InsertDesc(sorted, x) ==
    LET k == Cardinality({i \in 1..Len(sorted) : sorted[i].total >= x.total})
    IN  SubSeq(sorted, 1, k) \o <<x>> \o SubSeq(sorted, k + 1, Len(sorted))

\* sorted(items, key=lambda x: x[1], reverse=True): a stable sort.
RECURSIVE SortedDesc(_)
SortedDesc(items) ==
    IF items = <<>> THEN <<>>
    ELSE InsertDesc(SortedDesc(SubSeq(items, 1, Len(items) - 1)),
                    items[Len(items)])

get_top_sales_reps(records, top_n) ==
    LET revenue_by_rep == Accumulate(records, 1, <<>>)
        ranked == SortedDesc(revenue_by_rep)
        n == IF top_n < Len(ranked) THEN top_n ELSE Len(ranked)
    IN  [i \in 1..n |-> [sales_rep     |-> ranked[i].rep,
                         total_revenue |-> Round2(ranked[i].total)]]

(***************************************************************************)
(* routers/data.py: the table of a request.                                *)
(*                                                                         *)
(* A stored dataset is a sequence of records whose values are strings (an  *)
(* uploaded CSV); a key a record lacks is a missing cell (NaN).  The cells *)
(* of the model are ISO dates (YYYY-MM-DD), decimal literals below 1000,   *)
(* and text that pandas reads neither as a number nor as a date.           *)
(***************************************************************************)
\* pd.DataFrame(data).columns: the keys in order of first appearance.
RECURSIVE ColumnsOf(_, _, _)
ColumnsOf(data, i, cols) ==
    IF i > Len(data) THEN cols
    ELSE LET new == SelectSeq([j \in 1..Len(data[i]) |-> data[i][j].k],
                              LAMBDA k : k \notin Range(cols))
         IN  ColumnsOf(data, i + 1, cols \o new)

DataFrame(data) == [columns |-> ColumnsOf(data, 1, <<>>), rows |-> data]

\* df[col]: one cell per row, None where the row lacks the key.
Column(df, col) == [i \in 1..Len(df.rows) |-> Get(df.rows[i], col)]

\* .astype(str) of a cell: a missing cell reads "nan".
AsStr(cell) == IF cell.some THEN cell.val ELSE "nan"

\* pd.to_numeric(errors="coerce") of a cell, in thousandths.
ToNumeric(cell) == IF cell.some THEN ParseFloat(cell.val) ELSE None

\* pd.to_datetime(errors="coerce") of a cell: [y, m] of an ISO date.
ToDatetime(cell) ==
    IF ~cell.some THEN None
    ELSE LET s == cell.val
             y == SubSeq(s, 1, 4)
             m == SubSeq(s, 6, 7)
             d == SubSeq(s, 9, 10)
         IN  IF /\ Len(s) = 10
                /\ Ch(s, 5) = "-" /\ Ch(s, 8) = "-"
                /\ AllDigits(y) /\ AllDigits(m) /\ AllDigits(d)
                /\ NumVal(m) \in 1..12 /\ NumVal(d) \in 1..31
                /\ NumVal(y) >= 1678
             THEN Some([y |-> NumVal(y), m |-> NumVal(m)])
             ELSE None

\* Series.sum(): the missing entries are skipped.
RECURSIVE SumSome(_, _)
SumSome(cells, i) ==
    IF i > Len(cells) THEN 0
    ELSE (IF cells[i].some THEN cells[i].val ELSE 0) + SumSome(cells, i + 1)

\* Series.count(): the entries that are not missing.
CountSome(cells) == Cardinality({i \in 1..Len(cells) : cells[i].some})

\* Series.mean(): sum / count of the entries that are not missing, kept as a
\* fraction; NaN when there is none.
NaN == [nan |-> TRUE, num |-> 0, den |-> 0]
Mean(cells) ==
    IF CountSome(cells) = 0 THEN NaN
    ELSE [nan |-> FALSE, num |-> SumSome(cells, 1), den |-> CountSome(cells)]

\* Series.dropna().unique(): distinct values in order of first appearance.
RECURSIVE Unique(_, _, _)
Unique(cells, i, seen) ==
    IF i > Len(cells) THEN seen
    ELSE IF cells[i].some /\ cells[i].val \notin Range(seen)
         THEN Unique(cells, i + 1, Append(seen, cells[i].val))
    ELSE Unique(cells, i + 1, seen)

\* question.split(sep)[-1]: the text after the last occurrence of sep.
AfterLast(s, sep) ==
    LET at == {i \in 1..(Len(s) - Len(sep) + 1) :
                  SubSeq(s, i, i + Len(sep) - 1) = sep}
    IN  IF at = {} THEN s
        ELSE SubSeq(s, (CHOOSE i \in at : \A j \in at : j <= i) + Len(sep), Len(s))

\* str.strip(chars)
RECURSIVE StripChars(_, _)
StripChars(s, chars) ==
    IF s # "" /\ Ch(s, 1) \in chars THEN StripChars(Tail(s), chars)
    ELSE IF s # "" /\ Ch(s, Len(s)) \in chars
         THEN StripChars(SubSeq(s, 1, Len(s) - 1), chars)
    ELSE s

\* Series.str.contains(keyword) compiles keyword as a regular expression and
\* raises re.error on a malformed one.  The keywords of the model are plain
\* text, which matches as a substring, or carry an unbalanced parenthesis.
Count(s, c) == Cardinality({i \in 1..Len(s) : Ch(s, i) = c})
BadPattern(keyword) == Count(keyword, "(") # Count(keyword, ")")

(***************************************************************************)
(* routers/data.py: the rules of /data/ask.  A rule yields an outcome:     *)
(* not fired, an answer, or an exception raised while it ran; `rule` names *)
(* the rule that ran, for the properties (the response does not carry it). *)
(***************************************************************************)
LogicPrefix == "Logic result: "
GuidancePrefix == "Could not detect a Deal Stage column. "
AIPrefix == "AI-predicted response:"
ErrorPrefix == "Error occurred while processing your request: "

NotFired == [fired |-> FALSE]
Answered(rule, answer) ==
    [fired |-> TRUE, rule |-> rule, raised |-> FALSE, answer |-> answer]
Raised(rule, e) ==
    [fired |-> TRUE, rule |-> rule, raised |-> TRUE, error |-> e]

Mentions(question, col) == Contains(question, Lower(col))

\* Lines 193-196.
ContainsCount(df, question, col) ==
    LET keyword == StripChars(Strip(AfterLast(question, "contain")),
                              {"'", "\"", " "})
        cells == Column(df, col)
        count == Cardinality({i \in 1..Len(cells) :
                                 Contains(Lower(AsStr(cells[i])), keyword)})
    IN  IF BadPattern(keyword) THEN Raised("contains_count", "re.error")
        ELSE Answered("contains_count",
                      [prefix |-> LogicPrefix, kind |-> "rows_contain",
                       count |-> count, col |-> col, keyword |-> keyword])

\* Lines 198-200.
UniqueListing(df, col) ==
    LET unique_values == Unique(Column(df, col), 1, <<>>)
    IN  Answered("unique_listing",
                 [prefix |-> LogicPrefix, kind |-> "unique_values",
                  col |-> col, values |-> unique_values,
                  count |-> Len(unique_values)])

NumericColumn(df, col) ==
    [i \in 1..Len(df.rows) |-> ToNumeric(Column(df, col)[i])]

\* Lines 202-205.
SumTotal(df, col) ==
    Answered("sum_total",
             [prefix |-> LogicPrefix, kind |-> "total", col |-> col,
              total |-> SumSome(NumericColumn(df, col), 1)])

\* Lines 207-210.
Average(df, col) ==
    Answered("average",
             [prefix |-> LogicPrefix, kind |-> "average", col |-> col,
              avg |-> Mean(NumericColumn(df, col))])

\* The body of the loop over the columns, for one column (lines 193-210).
ColumnRules(df, question, col) ==
    IF /\ Contains(question, "how many")
       /\ Contains(question, "contain")
       /\ Mentions(question, col)
    THEN ContainsCount(df, question, col)
    ELSE IF Contains(question, "list all unique") /\ Mentions(question, col)
    THEN UniqueListing(df, col)
    ELSE IF /\ Contains(question, "total") \/ Contains(question, "sum")
            /\ Mentions(question, col)
    THEN SumTotal(df, col)
    ELSE IF Contains(question, "average") /\ Mentions(question, col)
    THEN Average(df, col)
    ELSE NotFired

\* for col in df.columns (line 192), from column i on.
RECURSIVE ColumnLoop(_, _, _)
ColumnLoop(df, question, i) ==
    IF i > Len(df.columns) THEN NotFired
    ELSE LET o == ColumnRules(df, question, df.columns[i])
         IN  IF o.fired THEN o ELSE ColumnLoop(df, question, i + 1)

Years == <<"2022", "2023", "2024">>

DateColumn(df, col) ==
    [i \in 1..Len(df.rows) |-> ToDatetime(Column(df, col)[i])]

\* Lines 213-218: the first column with a parseable date answers.
RECURSIVE YearScan(_, _, _)
YearScan(df, question, i) ==
    IF i > Len(df.columns) THEN NotFired
    ELSE LET dt == DateColumn(df, df.columns[i])
             year == NumVal(Years[Min({j \in 1..Len(Years) :
                                          Contains(question, Years[j])})])
         IN  IF CountSome(dt) > 0
             THEN Answered("year_count",
                           [prefix |-> LogicPrefix, kind |-> "rows_in_year",
                            year |-> year,
                            count |-> Cardinality({r \in 1..Len(dt) :
                                         dt[r].some /\ dt[r].val.y = year})])
             ELSE YearScan(df, question, i + 1)

\* Lines 212-218.
YearCount(df, question) ==
    IF /\ Contains(question, "how many")
       /\ \E j \in 1..Len(Years) : Contains(question, Years[j])
    THEN YearScan(df, question, 1)
    ELSE NotFired

\* df.describe(include="all") of a table of text columns: per column the
\* number of values, of distinct values, and the highest frequency (`top`,
\* the value having it, is left out).
Describe(df) ==
    [i \in 1..Len(df.columns) |->
        LET cells == Column(df, df.columns[i])
            uniq  == Unique(cells, 1, <<>>)
            freq(v) == Cardinality({r \in 1..Len(cells) : cells[r] = Some(v)})
        IN  [col    |-> df.columns[i],
             count  |-> CountSome(cells),
             unique |-> Len(uniq),
             freq   |-> IF uniq = <<>> THEN 0
                        ELSE CHOOSE f \in {freq(uniq[u]) : u \in 1..Len(uniq)} :
                                \A u \in 1..Len(uniq) : freq(uniq[u]) <= f]]

\* Lines 220-222.
Summary(df, question) ==
    IF Contains(question, "summary")
    THEN Answered("summary",
                  [prefix |-> LogicPrefix, kind |-> "summary",
                   summary |-> Describe(df)])
    ELSE NotFired

\* Lines 232-235.
PipelineForecast(df, question, amount_col) ==
    IF /\ \/ Contains(question, "pipeline")
          \/ Contains(question, "forecast")
          \/ Contains(question, "total pipeline")
       /\ amount_col.some
    THEN Answered("pipeline_forecast",
                  [prefix |-> LogicPrefix, kind |-> "pipeline_total",
                   col |-> amount_col.val,
                   total |-> Round2(SumSome(NumericColumn(df, amount_col.val), 1))])
    ELSE NotFired

\* df.groupby(stage_col)[amount_col].sum(): one item per stage value.
GroupSums(df, amount_col, stage_col) ==
    LET stages  == Unique(Column(df, stage_col), 1, <<>>)
        amounts == NumericColumn(df, amount_col)
        stageOf == Column(df, stage_col)
        inGroup(g) == [r \in 1..Len(df.rows) |->
                          IF stageOf[r] = Some(stages[g]) THEN amounts[r] ELSE None]
    IN  [g \in 1..Len(stages) |->
            [rep |-> stages[g], total |-> SumSome(inGroup(g), 1)]]

\* Lines 237-241.  The lines are listed by descending amount; the order of
\* stages with equal amounts is that of pandas' sort and is not modelled.
ByStage(df, question, amount_col, stage_col) ==
    IF /\ Contains(question, "by stage") \/ Contains(question, "per stage")
       /\ amount_col.some
       /\ stage_col.some
    THEN LET grouped == SortedDesc(GroupSums(df, amount_col.val, stage_col.val))
         IN  Answered("by_stage",
                      [prefix |-> LogicPrefix, kind |-> "by_stage",
                       lines |-> {[stage |-> grouped[g].rep,
                                   total |-> Round2(grouped[g].total)] :
                                      g \in 1..Len(grouped)},
                       totals |-> [g \in 1..Len(grouped) |->
                                      Round2(grouped[g].total)]])
    ELSE NotFired

\* Lines 243-247: utcnow is the [y, m] of the wall clock.
ClosingThisMonth(df, question, close_col, utcnow) ==
    IF /\ Contains(question, "closing") \/ Contains(question, "close")
       /\ Contains(question, "this month")
       /\ close_col.some
    THEN LET dt == DateColumn(df, close_col.val)
         IN  Answered("closing_this_month",
                      [prefix |-> LogicPrefix, kind |-> "rows_this_month",
                       col |-> close_col.val,
                       count |-> Cardinality({r \in 1..Len(dt) :
                                    /\ dt[r].some
                                    /\ dt[r].val.y = utcnow.y
                                    /\ dt[r].val.m = utcnow.m})])
    ELSE NotFired

\* The rate without the factor 100.
RateFraction(won, total_closed) ==
    (2 * 100 * won + total_closed) \div (2 * total_closed)

\* f"{x:.2f}" of won / total_closed * 100, in hundredths of a percent.
RatePercent(won, total_closed) ==
    (2 * 10000 * won + total_closed) \div (2 * total_closed)

\* Lines 252-272.
CloseRate(df, question, columns) ==
    IF \/ Contains(question, "close rate")
       \/ Contains(question, "win rate")
       \/ Contains(question, "conversion rate")
    THEN LET stage_col == find_column(columns, "deal_stage")
             stages == [r \in 1..Len(df.rows) |->
                           Lower(AsStr(Column(df, stage_col.val)[r]))]
             won  == Cardinality({r \in 1..Len(stages) : Contains(stages[r], "won")})
             lost == Cardinality({r \in 1..Len(stages) : Contains(stages[r], "lost")})
             total_closed == won + lost
         IN  IF ~stage_col.some
             THEN Answered("close_rate",
                           [prefix |-> GuidancePrefix, kind |-> "map_stage_field"])
             ELSE IF total_closed = 0
             THEN Answered("close_rate",
                           [prefix |-> LogicPrefix, kind |-> "no_closed_deals"])
             ELSE Answered("close_rate",
                           [prefix |-> LogicPrefix, kind |-> "close_rate",
                            rate |-> RatePercent(won, total_closed),
                            won |-> won, closed |-> total_closed])
    ELSE NotFired

\* Lines 277-289: the generative service answers or fails (ai).
Fallback(ai) ==
    IF ai = "ok"
    THEN Answered("fallback",
                  [prefix |-> AIPrefix, kind |-> "ai", text |-> "ai_answer"])
    ELSE Raised("fallback", "openai.error")

\* One `if` of the cascade: its return when the rule fires, else the code
\* that follows it.
OrElse(o, rest) == IF o.fired THEN o ELSE rest

\* The body of the try block with the summary rule tested first.
CascadeSummaryFirst(df, question, utcnow, ai) ==
    OrElse(Summary(df, question),
    OrElse(ColumnLoop(df, question, 1),
    OrElse(YearCount(df, question),
    OrElse(PipelineForecast(df, question, find_column(df.columns, "deal_value")),
    OrElse(ByStage(df, question, find_column(df.columns, "deal_value"),
                   find_column(df.columns, "deal_stage")),
    OrElse(ClosingThisMonth(df, question, find_column(df.columns, "close_date"),
                            utcnow),
    OrElse(CloseRate(df, question, df.columns),
           Fallback(ai))))))))

\* The body of the try block (lines 189-289): each rule in turn, the first
\* that fires returns.
Cascade(df, question, utcnow, ai) ==
    OrElse(ColumnLoop(df, question, 1),
    OrElse(YearCount(df, question),
    OrElse(Summary(df, question),
    OrElse(PipelineForecast(df, question, find_column(df.columns, "deal_value")),
    OrElse(ByStage(df, question, find_column(df.columns, "deal_value"),
                   find_column(df.columns, "deal_stage")),
    OrElse(ClosingThisMonth(df, question, find_column(df.columns, "close_date"),
                            utcnow),
    OrElse(CloseRate(df, question, df.columns),
           Fallback(ai))))))))

(***************************************************************************)
(* routers/data.py: the handlers.  A document is missing or holds `data`:  *)
(* a list of records, or (written by another client of the store) a value  *)
(* of another shape, here a dict of scalars.  A response carries, besides  *)
(* its status and body, a trace for the properties: the state of the       *)
(* document, the question and data of the request, the clock, the rule     *)
(* that ran and where an exception was raised.                             *)
(***************************************************************************)
NoDoc == [exists |-> FALSE, data |-> [shape |-> "list", items |-> <<>>]]
ListDoc(records) == [exists |-> TRUE, data |-> [shape |-> "list", items |-> records]]
DictDoc(entries) == [exists |-> TRUE, data |-> [shape |-> "dict", items |-> <<entries>>]]

DocState(doc) ==
    IF ~doc.exists THEN "missing"
    ELSE IF doc.data.items = <<>> THEN "empty"
    ELSE "data"

Trace(doc, question, utcnow, rule, fault) ==
    [doc |-> DocState(doc), question |-> question, data |-> doc.data,
     utcnow |-> utcnow, rule |-> rule, fault |-> fault]

\* raise HTTPException(status_code, detail), and an exception that leaves
\* the handler (the framework answers 500).
HttpError(endpoint, status, detail, trace) ==
    [endpoint |-> endpoint, status |-> status,
     body |-> [detail |-> detail], trace |-> trace]
Ok(endpoint, body, trace) ==
    [endpoint |-> endpoint, status |-> 200, body |-> body, trace |-> trace]

\* The answer of the except clause (line 292).
ErrorAnswer(e) == [prefix |-> ErrorPrefix, kind |-> "error", error |-> e]

\* The response of /data/ask to the outcome o of the try block: the answer
\* of a rule, or that of the except clause (lines 291-292).
AskResponse(doc, question_text, utcnow, o) ==
    IF o.raised
    THEN Ok("ask", [answer |-> ErrorAnswer(o.error)],
            Trace(doc, question_text, utcnow, o.rule,
                  IF o.rule = "fallback" THEN "fallback" ELSE "rule"))
    ELSE Ok("ask", [answer |-> o.answer],
            Trace(doc, question_text, utcnow, o.rule, "none"))

\* POST /data/ask (lines 159-292).
ask_question(doc, question_text, utcnow, ai) ==
    IF ~doc.exists
    THEN HttpError("ask", 404, "No data found for user",
                   Trace(doc, question_text, utcnow, "none", "none"))
    ELSE IF doc.data.items = <<>>
    THEN HttpError("ask", 404, "No data available to query",
                   Trace(doc, question_text, utcnow, "none", "none"))
    ELSE IF doc.data.shape # "list"
    THEN \* pd.DataFrame(data) raises ValueError before the try block
         HttpError("ask", 500, "Internal Server Error",
                   Trace(doc, question_text, utcnow, "none", "table"))
    ELSE AskResponse(doc, question_text, utcnow,
                     Cascade(DataFrame(doc.data.items), Lower(question_text),
                             utcnow, ai))

SampleSize == 25
TopNDefault == 5

RepLike == <<"sales_rep", "sales rep", "rep", "owner", "agent", "salesperson">>
ValueLike == <<"deal_value", "deal value", "revenue", "amount", "price", "total">>

\* sample_keys (lines 333-335): the lowercase keys of the first records.
SampleKeys(records) ==
    LET n == IF Len(records) < SampleSize THEN Len(records) ELSE SampleSize
    IN  UNION {{Lower(records[i][j].k) : j \in 1..Len(records[i])} : i \in 1..n}

\* "".join(sample_keys): a set is joined in its iteration order, which the
\* hashing of the process decides; every order is possible.
RECURSIVE Joins(_)
Joins(keys) ==
    IF keys = {} THEN {""}
    ELSE UNION {{k \o rest : rest \in Joins(keys \ {k})} : k \in keys}

AnyIn(words, text) == \E i \in 1..Len(words) : Contains(text, words[i])

\* GET /data/top-sales-reps (lines 320-356); joined is "".join(sample_keys).
top_sales_reps(doc, joined) ==
    LET tr(reducer) == Trace(doc, "", [y |-> 0, m |-> 0], reducer, "none")
    IN  IF ~doc.exists
        THEN HttpError("top-sales-reps", 404, "No data found", tr("none"))
        ELSE IF doc.data.items = <<>>
        THEN Ok("top-sales-reps",
                [top_sales_reps |-> <<>>, note |-> "No records found."],
                tr("none"))
        ELSE IF doc.data.shape # "list"
        THEN \* records[:25] raises TypeError on a dict
             HttpError("top-sales-reps", 500, "Internal Server Error",
                       Trace(doc, "", [y |-> 0, m |-> 0], "none", "table"))
        ELSE IF ~AnyIn(RepLike, joined) \/ ~AnyIn(ValueLike, joined)
        THEN Ok("top-sales-reps",
                [top_sales_reps |-> <<>>,
                 note |-> "This feature requires a CRM/Sales dataset",
                 detected_headers_sample |-> SampleKeys(doc.data.items)],
                tr("none"))
        ELSE LET top == get_top_sales_reps(doc.data.items, TopNDefault)
             IN  IF top = <<>>
                 THEN Ok("top-sales-reps",
                         [top_sales_reps |-> <<>>,
                          note |-> "No usable Sales Rep + Deal Value pairs found."],
                         tr("get_top_sales_reps"))
                 ELSE Ok("top-sales-reps", [top_sales_reps |-> top],
                         tr("get_top_sales_reps"))

\* POST /data/upload_csv (lines 72-92): rows are the rows csv.DictReader
\* reads, their values already text.
upload_csv(rows) ==
    IF rows = <<>>
    THEN [endpoint |-> "upload_csv", status |-> 400,
          body |-> [detail |-> "Invalid CSV format"]]
    ELSE [endpoint |-> "upload_csv", status |-> 200,
          body |-> [detail |-> "CSV uploaded successfully", records |-> Len(rows)]]

\* POST /data/import_google (lines 97-110): sheet is the list of records of
\* the first worksheet, or the fetch fails.
import_google(fetched, sheet) ==
    IF ~fetched
    THEN [endpoint |-> "import_google", status |-> 400,
          body |-> [detail |-> "Failed to fetch Google Sheet"]]
    ELSE [endpoint |-> "import_google", status |-> 200,
          body |-> [detail |-> "Google Sheet imported", records |-> Len(sheet)]]

(***************************************************************************)
(* Function-level specification of find_column.                            *)
(***************************************************************************)
ColumnNames ==
    {"amount", "Deal Amount ($)", "AMOUNT", "Stage", "owner_name", "region",
     "Closed Won Date"}

FieldKeys == DOMAIN CANONICAL_FIELDS \cup {"lead_source"}

Idle ==
    /\ store = "unused"
    /\ now = 1
    /\ resp = NoRet
    /\ first = NoRet

InitFind ==
    /\ Idle
    /\ call \in {[fn |-> "find_column", columns |-> cs, field_key |-> k] :
                    cs \in DistinctSeqs(ColumnNames, MaxCols), k \in FieldKeys}
    /\ ret = NoRet

CallFindColumn ==
    /\ call.fn = "find_column"
    /\ ret = NoRet
    /\ ret' = Returned(find_column(call.columns, call.field_key))
    /\ UNCHANGED <<store, now, resp, first, call>>

NextFind == CallFindColumn

SpecFind == InitFind /\ [][NextFind]_vars

\* Columns of the call that equal a keyword / contain a keyword, by position.
ExactPositions(cs, k) ==
    {i \in 1..Len(cs) : Lower(cs[i]) \in {Lower(w) : w \in Range(Keywords(k))}}
PartialPositions(cs, k) ==
    {i \in 1..Len(cs) :
        \E w \in Range(Keywords(k)) : Contains(Lower(cs[i]), Lower(w))}

\* C2: find_column returns the first column equal to a keyword if there is
\* one (even after a column that only contains a keyword), otherwise the
\* first column containing a keyword, otherwise none; an unknown field key
\* has no keywords and resolves to none.
C2_ExactThenSubstring ==
    (call.fn = "find_column" /\ ret.done) =>
        LET cs == call.columns
            k  == call.field_key
            ex == ExactPositions(cs, k)
            pa == PartialPositions(cs, k)
        IN  /\ ex # {} => ret.val = Some(cs[Min(ex)])
            /\ (ex = {} /\ pa # {}) => ret.val = Some(cs[Min(pa)])
            /\ (ex = {} /\ pa = {}) => ret.val = None
            /\ k \notin DOMAIN CANONICAL_FIELDS => ret.val = None

\* An exact match was returned although an earlier column contains a keyword.
C2_Witness ==
    /\ call.fn = "find_column" /\ ret.done
    /\ call.columns = <<"Deal Amount ($)", "owner_name", "amount">>
    /\ call.field_key = "deal_value"
    /\ ret.val = Some("amount")

(***************************************************************************)
(* Function-level specification of get_top_sales_reps.                     *)
(***************************************************************************)
Pair(k1, v1, k2, v2) == <<[k |-> k1, v |-> v1], [k |-> k2, v |-> v2]>>

RankRecords ==
    {Pair("rep", Some("A"), "amount", Some("$100")),
     Pair("rep", Some("B"), "amount", Some("$300")),
     Pair("rep", Some("A"), "amount", Some("$50")),
     Pair("rep", Some("A"), "amount", Some("N/A")),
     Pair("sales_rep", Some(" B "), "deal_value", Some("100")),
     Pair("Owner Name", Some("C"), "Total Price", Some("1,250.504")),
     Pair("name", Some("X"), "amount", Some("100")),
     Pair("rep", Some("C"), "amount", None),
     <<[k |-> "rep", v |-> Some("")], [k |-> "owner", v |-> Some("C")],
       [k |-> "amount", v |-> Some("100")]>>,
     <<[k |-> "rep", v |-> Some("B")], [k |-> "deal_value", v |-> Some("")],
       [k |-> "Amount", v |-> Some("0.004")]>>}

InitRank ==
    /\ Idle
    /\ call \in {[fn |-> "get_top_sales_reps", records |-> rs, top_n |-> n] :
                    rs \in SeqsUpTo(RankRecords, MaxRecords), n \in 1..MaxTopN}
    /\ ret = NoRet

CallGetTopSalesReps ==
    /\ call.fn = "get_top_sales_reps"
    /\ ret = NoRet
    /\ ret' = Returned(get_top_sales_reps(call.records, call.top_n))
    /\ UNCHANGED <<store, now, resp, first, call>>

NextRank == CallGetTopSalesReps

SpecRank == InitRank /\ [][NextRank]_vars

\* What a record resolves to for a canonical key and its keyword family:
\* the canonical key's value unless missing or empty, otherwise the value
\* under the (last) key equal to the first keyword that equals some key,
\* otherwise the value under the first key that contains a keyword.
Resolved(record, canon, keywords) ==
    LET ks == 1..Len(record)
        equalKw == {j \in 1..Len(keywords) :
                       \E i \in ks : Lower(record[i].k) = keywords[j]}
        holders == {i \in ks : Lower(record[i].k) = keywords[Min(equalKw)]}
        within  == {i \in ks : \E j \in 1..Len(keywords) :
                                   Contains(Lower(record[i].k), keywords[j])}
    IN  IF \E i \in ks : record[i].k = canon /\ Truthy(record[i].v)
        THEN (CHOOSE e \in Range(record) : e.k = canon).v
        ELSE IF equalKw # {}
        THEN record[CHOOSE i \in holders : \A h \in holders : h <= i].v
        ELSE IF within # {} THEN record[Min(within)].v
        ELSE None

\* The number an amount text writes once "$" and "," are dropped, if any.
MoneyOf(v) ==
    IF Truthy(v) THEN ParseFloat(Remove(Remove(Strip(v.val), "$"), ","))
    ELSE None

Names(record) == Truthy(Resolved(record, "sales_rep", RepKeywords))
RepName(record) == Strip(Resolved(record, "sales_rep", RepKeywords).val)
Amount(record) == MoneyOf(Resolved(record, "deal_value", ValueKeywords))

\* Per record of the input universe: whether it names a representative, the
\* trimmed name, and the amount it carries if that parses.
RecordFacts ==
    [r \in RankRecords |->
        [names  |-> Names(r),
         rep    |-> IF Names(r) THEN RepName(r) ELSE "",
         amount |-> Amount(r)]]

Contributes(record) ==
    RecordFacts[record].names /\ RecordFacts[record].amount.some

\* The sum of the amounts of the contributing records of rep, from record i on.
RECURSIVE SumFor(_, _, _)
SumFor(records, rep, i) ==
    IF i > Len(records) THEN 0
    ELSE (IF Contributes(records[i]) /\ RecordFacts[records[i]].rep = rep
          THEN RecordFacts[records[i]].amount.val ELSE 0)
         + SumFor(records, rep, i + 1)

ContributingReps(records) ==
    {RecordFacts[records[i]].rep :
        i \in {j \in 1..Len(records) : Contributes(records[j])}}

FirstContribution(records, rep) ==
    Min({i \in 1..Len(records) :
            Contributes(records[i]) /\ RecordFacts[records[i]].rep = rep})

FirstNaming(records, rep) ==
    Min({i \in 1..Len(records) :
            RecordFacts[records[i]].names /\ RecordFacts[records[i]].rep = rep})

RankReturned == call.fn = "get_top_sales_reps" /\ ret.done

\* The ranking is cut to top_n and descending by total (accumulated and
\* reported).
RankOrdered ==
    LET out == ret.val
        rs  == call.records
    IN  /\ Len(out) <= call.top_n
        /\ \A i, j \in 1..Len(out) : i < j =>
              /\ out[i].total_revenue >= out[j].total_revenue
              /\ SumFor(rs, out[i].sales_rep, 1) >= SumFor(rs, out[j].sales_rep, 1)

RankEntries ==
    LET out  == ret.val
        reps == ContributingReps(call.records)
    IN  /\ \A i \in 1..Len(out) : out[i].sales_rep \in reps
        /\ \A i, j \in 1..Len(out) :
              out[i].sales_rep = out[j].sales_rep => i = j
        /\ Len(out) = IF call.top_n < Cardinality(reps)
                      THEN call.top_n ELSE Cardinality(reps)

\* C4 as stated: exactly the records with a resolvable representative and a
\* parseable amount contribute, and each reported total equals the sum of the
\* amounts of the contributing records of that representative.
C4_TotalIsExactSum ==
    RankReturned =>
        /\ RankEntries
        /\ \A i \in 1..Len(ret.val) :
              ret.val[i].total_revenue
                 = SumFor(call.records, ret.val[i].sales_rep, 1)

\* C4 amended: exactly the records with a resolvable representative and a
\* parseable amount contribute, and each reported total equals the sum of the
\* amounts of the contributing records of that representative rounded to two
\* decimals.
C4_TotalIsRoundedSum ==
    RankReturned =>
        /\ RankEntries
        /\ \A i \in 1..Len(ret.val) :
              ret.val[i].total_revenue
                 = Round2(SumFor(call.records, ret.val[i].sales_rep, 1))

\* The example of the claim (B = 300, A = 150), and a record skipped for its
\* amount that creates no entry.
C4_Witness ==
    /\ RankReturned
    /\ call.records = <<Pair("rep", Some("A"), "amount", Some("$100")),
                        Pair("rep", Some("B"), "amount", Some("$300")),
                        Pair("rep", Some("A"), "amount", Some("$50"))>>
    /\ call.top_n = 2
    /\ ret.val = <<[sales_rep |-> "B", total_revenue |-> 300000],
                   [sales_rep |-> "A", total_revenue |-> 150000]>>

(***************************************************************************)
(* Function-level specification of the /data/ask cascade: one request on   *)
(* a stored dataset.                                                       *)
(***************************************************************************)
\* The wall-clock months the server lives through.
Months == [i \in 1..MaxMonths |-> [y |-> 2024, m |-> 4 + i]]

Rec(keys, vals) == [i \in 1..Len(keys) |-> [k |-> keys[i], v |-> Some(vals[i])]]

DealColumns == <<"Stage", "Amount", "Close Date">>
DealColumnsReordered == <<"Close Date", "Amount", "Stage">>

Deals(columns) ==
    LET at(name) == CHOOSE i \in 1..3 : DealColumns[i] = name
        row(vals) == Rec(columns, [i \in 1..3 |-> vals[at(columns[i])]])
    IN  <<row(<<"Closed Won", "100", "2024-05-10">>),
          row(<<"Open", "abc", "2023-06-01">>),
          row(<<"closed lost", "50.5", "n/a">>),
          row(<<"Closed Won", "", "2024-05-20">>)>>

DealsNoDate ==
    <<Rec(<<"Stage", "Amount">>, <<"Closed Won", "100">>),
      Rec(<<"Amount">>, <<"250">>),
      Rec(<<"Stage", "Amount">>, <<"Open", "$75">>)>>

Contacts ==
    <<Rec(<<"Rep", "Note">>, <<"Ann", "won big">>),
      Rec(<<"Rep", "Note">>, <<"Bob", "call back">>)>>

\* won = 3, lost = 1, other = 6
TenDeals ==
    [i \in 1..10 |->
        Rec(<<"Stage">>, <<IF i <= 3 THEN "Closed Won"
                           ELSE IF i = 4 THEN "Closed Lost"
                           ELSE "Negotiation">>)]

FixedDatasets ==
    {Deals(DealColumns), Deals(DealColumnsReordered), DealsNoDate, Contacts,
     TenDeals}

Fragments ==
    {"How many Stage contain won", "list all unique stage", "Total Amount",
     "average amount", "how many closed in 2023", "summary", "pipeline",
     "per stage", "closing this month", "Win Rate", "amount", "average",
     "how many note contain (x"}

RECURSIVE Join(_)
Join(parts) ==
    IF parts = <<>> THEN ""
    ELSE IF Len(parts) = 1 THEN parts[1]
    ELSE parts[1] \o " " \o Join(Tail(parts))

Questions == {Join(p) : p \in SeqsUpTo(Fragments, MaxFragments)}

StageRows ==
    {Rec(<<"Stage">>, <<"Closed Won">>), Rec(<<"Stage">>, <<"closed LOST">>),
     Rec(<<"Stage">>, <<"Open">>), Rec(<<"Stage">>, <<"Lost, then won back">>),
     Rec(<<"Deal">>, <<"D-1">>)}

AmountRows ==
    {Rec(<<"Amount">>, <<"100">>), Rec(<<"Amount">>, <<"50.5">>),
     Rec(<<"Amount">>, <<"abc">>), Rec(<<"Amount">>, <<"">>),
     Rec(<<"Deal">>, <<"D-1">>)}

RateQuestions == {"What is the Close Rate", "win rate", "conversion rate?"}
AmountQuestions == {"Total Amount", "sum of amount", "Average amount"}

CascadeInputs ==
    (Questions \X FixedDatasets)
    \cup (RateQuestions \X (SeqsUpTo(StageRows, MaxRows) \ {<<>>}))
    \cup (AmountQuestions \X (SeqsUpTo(AmountRows, MaxRows) \ {<<>>}))

InitCascade ==
    /\ Idle
    /\ call \in {[fn |-> "ask_question", question |-> in[1], data |-> in[2]] :
                    in \in CascadeInputs}
    /\ ret = NoRet

CallAskQuestion(ai) ==
    /\ call.fn = "ask_question"
    /\ ret = NoRet
    /\ ret' = Returned(ask_question(ListDoc(call.data), call.question,
                                    Months[now], ai))
    /\ UNCHANGED <<store, now, resp, first, call>>

NextCascade == \E ai \in {"ok", "fail"} : CallAskQuestion(ai)

SpecCascade == InitCascade /\ [][NextCascade]_vars

AskReturned == call.fn = "ask_question" /\ ret.done

\* The rules in priority order.
Priority ==
    <<"contains_count", "unique_listing", "sum_total", "average", "year_count",
      "summary", "pipeline_forecast", "by_stage", "closing_this_month",
      "close_rate">>

\* The kinds of answer of each rule.
KindsOf ==
    [contains_count     |-> {"rows_contain"},
     unique_listing     |-> {"unique_values"},
     sum_total          |-> {"total"},
     average            |-> {"average"},
     year_count         |-> {"rows_in_year"},
     summary            |-> {"summary"},
     pipeline_forecast  |-> {"pipeline_total"},
     by_stage           |-> {"by_stage"},
     closing_this_month |-> {"rows_this_month"},
     close_rate         |-> {"map_stage_field", "no_closed_deals", "close_rate"},
     fallback           |-> {"ai"}]

\* The predicate of each rule on a lowercase question q and a dataset: a
\* column-keyed rule needs its keywords and the name of any column in q.
NamesAColumn(q, data) ==
    \E i \in 1..Len(data) : \E j \in 1..Len(data[i]) :
        Contains(q, Lower(data[i][j].k))

HasDate(data) ==
    \E i \in 1..Len(data) : \E j \in 1..Len(data[i]) :
        ToDatetime(data[i][j].v).some

ResolvesTo(data, field_key) ==
    \E i \in 1..Len(data) : \E j \in 1..Len(data[i]) :
        \E w \in Range(Keywords(field_key)) : Contains(Lower(data[i][j].k), w)

Satisfied(rule, q, data, yearNeedsDate) ==
    CASE rule = "contains_count" ->
            Contains(q, "how many") /\ Contains(q, "contain") /\ NamesAColumn(q, data)
      [] rule = "unique_listing" ->
            Contains(q, "list all unique") /\ NamesAColumn(q, data)
      [] rule = "sum_total" ->
            (Contains(q, "total") \/ Contains(q, "sum")) /\ NamesAColumn(q, data)
      [] rule = "average" ->
            Contains(q, "average") /\ NamesAColumn(q, data)
      [] rule = "year_count" ->
            /\ Contains(q, "how many")
            /\ \E y \in {"2022", "2023", "2024"} : Contains(q, y)
            /\ yearNeedsDate => HasDate(data)
      [] rule = "summary" -> Contains(q, "summary")
      [] rule = "pipeline_forecast" ->
            /\ Contains(q, "pipeline") \/ Contains(q, "forecast")
            /\ ResolvesTo(data, "deal_value")
      [] rule = "by_stage" ->
            /\ Contains(q, "by stage") \/ Contains(q, "per stage")
            /\ ResolvesTo(data, "deal_value")
            /\ ResolvesTo(data, "deal_stage")
      [] rule = "closing_this_month" ->
            /\ Contains(q, "closing") \/ Contains(q, "close")
            /\ Contains(q, "this month")
            /\ ResolvesTo(data, "close_date")
      [] rule = "close_rate" ->
            \/ Contains(q, "close rate")
            \/ Contains(q, "win rate")
            \/ Contains(q, "conversion rate")

\* The highest-priority rule that is satisfied, the fallback if none is.
Winner(q, data, yearNeedsDate) ==
    LET sat == {i \in 1..Len(Priority) :
                   Satisfied(Priority[i], q, data, yearNeedsDate)}
    IN  IF sat = {} THEN "fallback" ELSE Priority[Min(sat)]

AnsweredBy(rule) ==
    /\ ret.val.status = 200
    /\ ret.val.trace.rule = rule
    /\ ret.val.trace.fault = "none" =>
          ret.val.body.answer.kind \in KindsOf[rule]

\* C1 as stated: the answer comes from the highest-priority rule whose
\* predicate holds (year-count: "how many" and a supported year in the
\* question), whatever the order of the columns.
C1_FirstMatchWins ==
    AskReturned => AnsweredBy(Winner(Lower(call.question), call.data, FALSE))

\* C1 amended: the same, where the year-count rule counts as satisfied only
\* if some column holds at least one parseable date; without one it yields
\* no answer and the lower-priority rules are tried.
C1_FirstMatchWinsDated ==
    AskReturned => AnsweredBy(Winner(Lower(call.question), call.data, TRUE))

\* A question satisfying contains-count and summary, answered by
\* contains-count from a column that is not the first of the dataset.
C1_Witness ==
    /\ AskReturned
    /\ call.question = "summary How many Stage contain won"
    /\ call.data = Deals(DealColumnsReordered)
    /\ ret.val.body.answer.kind = "rows_contain"
    /\ ret.val.body.answer.col = "Stage"
    /\ ret.val.body.answer.count = 2

\* The stage column of the dataset, by the resolver's rule stated on
\* positions: the first column equal to a deal_stage keyword, else the first
\* containing one.
StageColumnOf(data) ==
    LET cs == ColumnsOf(data, 1, <<>>)
        ex == ExactPositions(cs, "deal_stage")
        pa == PartialPositions(cs, "deal_stage")
    IN  IF ex # {} THEN Some(cs[Min(ex)])
        ELSE IF pa # {} THEN Some(cs[Min(pa)])
        ELSE None

\* Rows of the dataset whose cell under col, read as lowercase text,
\* contains word.
RowsWith(data, col, word) ==
    {i \in 1..Len(data) : Contains(Lower(AsStr(Get(data[i], col))), word)}

RateAnswered ==
    /\ AskReturned
    /\ ret.val.status = 200
    /\ ret.val.trace.rule = "close_rate"

\* What the close/win-rate rule answers, but for the bound on the number of
\* closed deals: the guidance message without a stage column (the fallback
\* is not called), "no closed deals" when won + lost = 0, otherwise
\* won / (won + lost) * 100 to two decimals on won + lost closed deals.
RateAnswer ==
    LET data  == call.data
        a     == ret.val.body.answer
        stage == StageColumnOf(data)
        won   == Cardinality(RowsWith(data, stage.val, "won"))
        lost  == Cardinality(RowsWith(data, stage.val, "lost"))
    IN  /\ ret.val.trace.fault = "none"
        /\ ~stage.some => a.prefix = GuidancePrefix /\ a.kind = "map_stage_field"
        /\ (stage.some /\ won + lost = 0) =>
              a.prefix = LogicPrefix /\ a.kind = "no_closed_deals"
        /\ (stage.some /\ won + lost > 0) =>
              /\ a.prefix = LogicPrefix /\ a.kind = "close_rate"
              /\ a.won = won
              /\ a.closed = won + lost
              /\ 2 * a.rate * a.closed - 2 * 10000 * won \in
                    (1 - a.closed)..a.closed
              /\ a.rate \in 0..10000

\* C5 as stated: the close/win-rate rule answers as above, and the number
\* of closed deals never exceeds the number of rows.
C5_CloseRate ==
    RateAnswered =>
        /\ RateAnswer
        /\ ret.val.body.answer.kind = "close_rate" =>
              ret.val.body.answer.closed <= Len(call.data)

\* C5 amended: the close/win-rate rule answers as above; the number of
\* closed deals never exceeds the number of rows when no stage value
\* contains both "won" and "lost", and never exceeds twice the number of
\* rows (a row whose stage contains both counts as won and as lost).
C5_CloseRateCountedTwice ==
    RateAnswered =>
        /\ RateAnswer
        /\ ret.val.body.answer.kind = "close_rate" =>
              LET stage == StageColumnOf(call.data).val
                  both  == RowsWith(call.data, stage, "won")
                              \cap RowsWith(call.data, stage, "lost")
              IN  /\ ret.val.body.answer.closed <= 2 * Len(call.data)
                  /\ both = {} => ret.val.body.answer.closed <= Len(call.data)

\* Won = 3, lost = 1, other = 6: 75.00% on 4 closed deals.
C5_Witness ==
    /\ RateAnswered
    /\ call.data = TenDeals
    /\ ret.val.body.answer =
          [prefix |-> LogicPrefix, kind |-> "close_rate", rate |-> 7500,
           won |-> 3, closed |-> 4]

\* The numbers of a column, as the claim counts them: the cells that write
\* a decimal number.
Coercible(data, col) ==
    {i \in 1..Len(data) :
        Get(data[i], col).some /\ ParseFloat(Get(data[i], col).val).some}

RECURSIVE SumOfRows(_, _, _)
SumOfRows(data, col, rows) ==
    IF rows = {} THEN 0
    ELSE LET i == CHOOSE r \in rows : TRUE
         IN  ParseFloat(Get(data[i], col).val).val
                + SumOfRows(data, col, rows \ {i})

\* C10: the sum rule returns the sum of the coercible values of its column,
\* the average rule that sum over the number of coercible values, and with no
\* coercible value the average is a defined outcome, not a NaN.
C10_SumAndAverage ==
    (AskReturned /\ ret.val.status = 200 /\ ret.val.trace.fault = "none") =>
        LET a == ret.val.body.answer
        IN  /\ a.kind = "total" =>
                  a.total = SumOfRows(call.data, a.col, Coercible(call.data, a.col))
            /\ a.kind = "average" =>
                  /\ ~a.avg.nan
                  /\ a.avg.den = Cardinality(Coercible(call.data, a.col))
                  /\ a.avg.num = SumOfRows(call.data, a.col,
                                           Coercible(call.data, a.col))

\* The part of C10 that the code meets: sums and averages of columns with
\* a coercible value.
C10_SumAndAverageOfNumbers ==
    (AskReturned /\ ret.val.status = 200 /\ ret.val.trace.fault = "none") =>
        LET a == ret.val.body.answer
        IN  /\ a.kind = "total" =>
                  a.total = SumOfRows(call.data, a.col, Coercible(call.data, a.col))
            /\ (a.kind = "average" /\ Coercible(call.data, a.col) # {}) =>
                  /\ ~a.avg.nan
                  /\ a.avg.den = Cardinality(Coercible(call.data, a.col))
                  /\ a.avg.num = SumOfRows(call.data, a.col,
                                           Coercible(call.data, a.col))

(***************************************************************************)
(* The server: one user's document, the requests of that user, the clock.  *)
(* A behaviour asks one question text again and again; `first` keeps an    *)
(* earlier response of /data/ask or /data/top-sales-reps.                  *)
(***************************************************************************)
RepDeals ==
    <<Rec(<<"rep", "amount">>, <<"A", "$100">>),
      Rec(<<"rep", "amount">>, <<"B", "$300">>)>>

\* Records keyed by a representative and a value keyword of the reducer.
RepValues ==
    <<Rec(<<"rep", "value">>, <<"A", "100">>)>>

\* Headers none of which holds a representative keyword, two of which form
\* "rep" when "store" is joined before "port".
StorePorts ==
    <<Rec(<<"store", "port", "amount">>, <<"S1", "P1", "100">>)>>

ServerDatasets == {Deals(DealColumns), Contacts, RepDeals, RepValues, StorePorts}

\* The sheets /data/import_google may find.
Sheets == {RepDeals, <<>>}

ServerQuestions ==
    {"How many Stage contain (won", "Deals closing this month", "Total Amount",
     "hello", "win rate"}

Init ==
    /\ store \in {NoDoc, DictDoc(<<[k |-> "rows", v |-> Some("3")]>>)}
    /\ now = 1
    /\ resp = NoRet
    /\ first = NoRet
    /\ call \in {[fn |-> "serve", question |-> q] : q \in ServerQuestions}
    /\ ret = NoRet

\* cells of the table that pd.to_numeric reads as numbers
NumericCells(data) ==
    [i \in 1..Len(data) |-> SelectSeq(data[i], LAMBDA c : ToNumeric(c.v).some)]

UploadCsv(rows) ==
    /\ call.fn = "serve"
    /\ resp' = Returned(upload_csv(rows))
    /\ store' = IF rows = <<>> THEN store ELSE ListDoc(rows)
    /\ UNCHANGED <<now, first, call, ret>>

ImportGoogle(fetched, sheet) ==
    /\ call.fn = "serve"
    /\ resp' = Returned(import_google(fetched, sheet))
    /\ store' = IF fetched THEN ListDoc(sheet) ELSE store
    /\ UNCHANGED <<now, first, call, ret>>

\* /data/ask with the coerced table written back to the store.
AskQuestionPersisting(ai, keep) ==
    /\ call.fn = "serve"
    /\ resp' = Returned(ask_question(store, call.question, Months[now], ai))
    /\ first' = IF keep THEN resp' ELSE first
    /\ store' = IF DocState(store) = "data" /\ store.data.shape = "list"
                THEN ListDoc(NumericCells(store.data.items))
                ELSE store
    /\ UNCHANGED <<now, call, ret>>

AskQuestion(ai, keep) ==
    /\ call.fn = "serve"
    /\ resp' = Returned(ask_question(store, call.question, Months[now], ai))
    /\ first' = IF keep THEN resp' ELSE first
    /\ UNCHANGED <<store, now, call, ret>>

TopSalesReps(keep) ==
    /\ call.fn = "serve"
    /\ \E joined \in Joins(IF store.exists /\ store.data.shape = "list"
                           THEN SampleKeys(store.data.items) ELSE {}) :
          resp' = Returned(top_sales_reps(store, joined))
    /\ first' = IF keep THEN resp' ELSE first
    /\ UNCHANGED <<store, now, call, ret>>

\* The wall clock passes into the next month.
Tick ==
    /\ call.fn = "serve"
    /\ now < MaxMonths
    /\ now' = now + 1
    /\ UNCHANGED <<store, resp, first, call, ret>>

Next ==
    \/ \E rows \in ServerDatasets \cup {<<>>} : UploadCsv(rows)
    \/ \E fetched \in BOOLEAN, sheet \in Sheets :
          ImportGoogle(fetched, sheet)
    \/ \E ai \in {"ok", "fail"}, keep \in BOOLEAN : AskQuestion(ai, keep)
    \/ \E keep \in BOOLEAN : TopSalesReps(keep)
    \/ Tick

Spec == Init /\ [][Next]_vars

\* first and resp are responses of the same entry point e.
Both(e) ==
    /\ first.done /\ resp.done
    /\ first.val.endpoint = e /\ resp.val.endpoint = e

C7_FallbackFailureIsDistinct ==
    (/\ Both("ask")
     /\ first.val.trace.fault = "rule"
     /\ resp.val.trace.fault = "fallback")
        => \/ first.val.body.answer.prefix # resp.val.body.answer.prefix
           \/ first.val.body.answer.kind # resp.val.body.answer.kind

\* C8: on each of /data/ask and /data/top-sales-reps a missing document and
\* an empty dataset get the same outcome (status), and no rule, reducer or
\* fallback is evaluated for either.
C8_MissingAndEmptyAlike ==
    \A e \in {"ask", "top-sales-reps"} :
        (/\ Both(e)
         /\ first.val.trace.doc = "missing"
         /\ resp.val.trace.doc = "empty")
            => /\ first.val.status = resp.val.status
               /\ first.val.trace.rule = "none"
               /\ resp.val.trace.rule = "none"

\* The answer of the response r was produced by one of the rules 1-10.
ByDeterministicRule(r) ==
    /\ r.status = 200
    /\ r.trace.fault = "none"
    /\ r.trace.rule \notin {"none", "fallback"}

\* Two invocations of /data/ask with the same question on the same stored
\* dataset, the first answered by a deterministic rule.
AskedTwice ==
    /\ Both("ask")
    /\ first.val.trace.question = resp.val.trace.question
    /\ first.val.trace.data = resp.val.trace.data
    /\ ByDeterministicRule(first.val)

\* C9 as stated: two invocations of /data/ask with the same question and the
\* same stored dataset return identical answers whenever a deterministic
\* rule (closing-this-month included) produces the answer, whatever time
\* passes between them.
C9_Idempotent == AskedTwice => first.val.body = resp.val.body

\* The store changes only in a step that answers an upload or an import.
OnlyWritersWrite ==
    store' # store => /\ resp'.done
                      /\ resp'.val.endpoint \in {"upload_csv", "import_google"}

\* C9, amended: two invocations of /data/ask with the same question and the
\* same stored dataset return identical answers whenever a deterministic
\* rule other than closing-this-month produces the answer, and also for
\* closing-this-month when both fall in the same calendar month; and no
\* invocation of /data/ask changes the stored dataset.
C9_IdempotentWithinMonth ==
    /\ []((/\ AskedTwice
            /\ \/ first.val.trace.rule # "closing_this_month"
               \/ first.val.trace.utcnow = resp.val.trace.utcnow)
              => first.val.body = resp.val.body)
    /\ [][OnlyWritersWrite]_vars

\* A sum answered twice, a month apart, with the same result, over a column
\* holding a value that does not coerce.
C9_Witness ==
    /\ AskedTwice
    /\ first.val.trace.rule = "sum_total"
    /\ first.val.trace.utcnow # resp.val.trace.utcnow
    /\ first.val.body = resp.val.body
    /\ first.val.body.answer.total = 150500
    /\ store = ListDoc(Deals(DealColumns))

\* The records the pre-check samples (records[:25]).
Sampled(records) ==
    SubSeq(records, 1, IF Len(records) < SampleSize THEN Len(records)
                       ELSE SampleSize)

\* Some single sampled header contains one of the words.
SomeHeaderHas(records, words) ==
    \E h \in SampleKeys(records) : AnyIn(words, h)

\* The response r of /data/top-sales-reps is the guidance of the pre-check.
RejectedByPreCheck(r) == "detected_headers_sample" \in DOMAIN r.body

\* C11: the pre-check of /data/top-sales-reps accepts exactly when some
\* single sampled header contains a representative keyword of the reducer
\* and some single sampled header contains a value keyword of the reducer,
\* and it never answers with the guidance message when get_top_sales_reps
\* returns a non-empty ranking from the sampled records.
C11_PreCheckPerHeader ==
    (/\ resp.done
     /\ resp.val.endpoint = "top-sales-reps"
     /\ resp.val.status = 200
     /\ resp.val.trace.doc = "data")
        => LET records == resp.val.trace.data.items
           IN  /\ ~RejectedByPreCheck(resp.val)
                    <=> /\ SomeHeaderHas(records, RepKeywords)
                        /\ SomeHeaderHas(records, ValueKeywords)
               /\ RejectedByPreCheck(resp.val)
                    => get_top_sales_reps(Sampled(records), TopNDefault) = <<>>

====
